---------------------------- MODULE Spec2Model ----------------------------
(***************************************************************************)
(* git-ignore: the cached template store, its refresh, and the resolution  *)
(* of requested names into a listing or into rendered content.             *)
(*                                                                         *)
(*   src/src/main.rs    main and GitIgnore (update, fetch, listing by      *)
(*                      prefix, rendering by retain)                       *)
(*   src/src/ignore.rs  Core (the same update/fetch/cache_exists, listing  *)
(*                      by substring over keys and config names, rendering *)
(*                      with alias expansion)                              *)
(*                                                                         *)
(* A Rust String is modelled as the sequence of its bytes (numbers), so    *)
(* that contains, starts_with and the ordering used by sort_unstable are   *)
(* computed and not assumed.  The bytes of ignore.json are modelled as a   *)
(* sequence of JSON tokens: an opening brace, one token per                *)
(* "key": {..., "contents": ...} member, a closing brace; anything else is *)
(* a junk token.                                                           *)
(***************************************************************************)
EXTENDS Integers, Sequences, FiniteSets, TLC

VARIABLES
    cache_dir,    \* TRUE iff the cache directory exists on disk
    ignore_file,  \* ignore.json: [exists, bytes]
    config,       \* Core.config : Option<Config>  [some, aliases, templates]
    pc,           \* position of the running invocation / call
    opt,          \* Opt {update, list, templates}; for a Core call only templates (= names)
    res,          \* the HTTP response held by fetch_gitignore: [open, body]
    out,          \* what was printed to stdout / returned: [printed, list, text]
    ret,          \* the Result of the invocation / call: "-", "Ok" or an error
    start,        \* the cache as it was when the invocation started
    log           \* the calls made by the running invocation, in order

vars == <<cache_dir, ignore_file, config, pc, opt, res, out, ret, start, log>>

---------------------------------------------------------------------------
(* Bounds of the model *)

\* longest list of requested names (Opt.templates / names)
MaxNames == 2
\* most members in a JSON document the server returns or the cache holds
MaxEntries == 2
\* most targets of one alias
MaxTargets == 2

---------------------------------------------------------------------------
(* Strings: sequences of bytes *)

\* "A", "ab", "ba": the names of templates, aliases and custom templates
s_A  == <<65>>
s_ab == <<97, 98>>
s_ba == <<98, 97>>
\* "a": never a name itself; a prefix of "ab", inside "ba" without being a
\* prefix of it, and "A" in the other case
s_a  == <<97>>
\* contents of records, and of the file of a custom template: "x", "y", "z", "c"
s_x == <<120>>
s_y == <<121>>
s_z == <<122>>
s_c == <<99>>
\* the path of a custom template file: "p"
s_p == <<112>>

Names == {s_A, s_ab, s_ba}
\* what a user may ask for: the names and "a"
Asked == Names \cup {s_a}

Min(a, b) == IF a <= b THEN a ELSE b

\* <str as Ord>::lt : byte-wise lexicographic order, a proper prefix is smaller
StrLess(a, b) ==
    \E i \in 1..(Min(Len(a), Len(b)) + 1) :
        /\ \A j \in 1..(i - 1) : a[j] = b[j]
        /\ \/ i = Len(a) + 1 /\ i <= Len(b)
           \/ i <= Len(a) /\ i <= Len(b) /\ a[i] < b[i]

\* str::contains(&str): pat occurs in s as a contiguous run of bytes
str_contains(s, pat) ==
    \E i \in 0..(Len(s) - Len(pat)) : SubSeq(s, i + 1, i + Len(pat)) = pat

\* str::starts_with(&str)
str_starts_with(s, pat) ==
    /\ Len(pat) <= Len(s)
    /\ SubSeq(s, 1, Len(pat)) = pat

Range(s) == {s[i] : i \in 1..Len(s)}

\* all sequences over S of length at most n
SeqsUpTo(S, n) == UNION {[1..k -> S] : k \in 0..n}

\* the orders in which a HashMap / HashSet holding exactly S may be iterated
Orders(S) == {o \in [1..Cardinality(S) -> S] : \A i, j \in DOMAIN o : o[i] = o[j] => i = j}

RECURSIVE Insert(_, _)
\* x put into the ascending sequence s, after the elements not larger than it
Insert(s, x) ==
    IF s = <<>> THEN <<x>>
    ELSE IF StrLess(x, Head(s)) THEN <<x>> \o s
    ELSE <<Head(s)>> \o Insert(Tail(s), x)

RECURSIVE sort_unstable(_)
\* slice::sort_unstable on Vec<String>: equal strings are indistinguishable,
\* so the result is the one ascending arrangement of the elements
sort_unstable(v) ==
    IF v = <<>> THEN <<>> ELSE Insert(sort_unstable(Tail(v)), Head(v))

RECURSIVE Concat(_)
\* the strings of a sequence pushed one after another (String::push_str)
Concat(ss) == IF ss = <<>> THEN <<>> ELSE Head(ss) \o Concat(Tail(ss))

---------------------------------------------------------------------------
(* ignore.json and its contents *)

Open   == [t |-> "{", key |-> <<>>, contents |-> <<>>]
Close  == [t |-> "}", key |-> <<>>, contents |-> <<>>]
Junk   == [t |-> "junk", key |-> <<>>, contents |-> <<>>]
Member(k, c) == [t |-> "member", key |-> k, contents |-> c]

\* the members of a catalog: every key with contents of its own, so that the
\* order of the contributions shows in the rendered text
Members == {Member(s_A, s_x), Member(s_ab, s_y), Member(s_ba, s_z)}

\* the catalogs: a JSON object of at most n members, each key once, in any order
Documents(n) ==
    {<<Open>> \o m \o <<Close>> :
        m \in {q \in SeqsUpTo(Members, n) : \A i, j \in DOMAIN q : q[i] = q[j] => i = j}}

NoFile == [exists |-> FALSE, bytes |-> <<>>]
FileOf(b) == [exists |-> TRUE, bytes |-> b]

NoRes == [open |-> FALSE, body |-> <<>>]
NoOut == [printed |-> FALSE, list |-> <<>>, text |-> <<>>]
NoOpt == [update |-> FALSE, list |-> FALSE, templates |-> <<>>]
NoStart == [dir |-> FALSE, file |-> NoFile]

EmptyMap == [k \in {} |-> <<>>]
None == [some |-> FALSE, aliases |-> EmptyMap, templates |-> EmptyMap]

\* serde_json::from_str::<HashMap<String, Language>>: Ok for a complete object
\* whose members are all records, with the last member of a repeated key
\* winning; an error for anything else (an empty or cut-off file included)
from_str(b) ==
    IF /\ Len(b) >= 2
       /\ b[1] = Open
       /\ b[Len(b)] = Close
       /\ \A i \in 2..(Len(b) - 1) : b[i].t = "member"
    THEN LET keys == {b[i].key : i \in 2..(Len(b) - 1)}
             last(k) == CHOOSE i \in 2..(Len(b) - 1) :
                            /\ b[i].key = k
                            /\ \A j \in (i + 1)..(Len(b) - 1) : b[j].key # k
         IN  [err |-> "Ok", map |-> [k \in keys |-> [contents |-> b[last(k)].contents]]]
    ELSE [err |-> "Malformed", map |-> EmptyMap]

\* GitIgnore::read_file / Core::read_file: read_to_string(file)? then from_str(..)?
read_file(f) ==
    IF ~f.exists THEN [err |-> "NotFound", map |-> EmptyMap] ELSE from_str(f.bytes)

\* GitIgnore::cache_exists / Core::cache_exists
cache_exists(dir, f) == dir \/ f.exists

---------------------------------------------------------------------------
(* GitIgnore (main.rs): listing and rendering as main calls them *)

\* GitIgnore::get_template_names, lines 206-216: the loop over the keys in
\* iteration order; every key is pushed if names is empty, else a key is
\* pushed once per name it starts with
GitIgnore_push(order, names) ==
    Concat([i \in DOMAIN order |->
               IF names = <<>> THEN <<order[i]>>
               ELSE Concat([j \in DOMAIN names |->
                               IF str_starts_with(order[i], names[j])
                               THEN <<order[i]>> ELSE <<>>])])

\* GitIgnore::get_template_names, after read_file succeeded with the keys
\* iterated in the given order
GitIgnore_get_template_names(order, names) ==
    sort_unstable(GitIgnore_push(order, names))

\* "\n\n### Created by https://www.gitignore.io"
Header ==
    <<10, 10, 35, 35, 35, 32, 67, 114, 101, 97, 116, 101, 100, 32, 98, 121, 32,
      104, 116, 116, 112, 115, 58, 47, 47, 119, 119, 119, 46, 103, 105, 116, 105,
      103, 110, 111, 114, 101, 46, 105, 111>>

\* the tail of get_templates: the header is put in front of a non-empty result
WithHeader(result) == IF result # <<>> THEN Header \o result ELSE result

\* GitIgnore::get_templates, after read_file succeeded: the records whose key
\* is among names are kept and their contents pushed in iteration order
GitIgnore_get_templates(templates, order) ==
    WithHeader(Concat([i \in DOMAIN order |-> templates[order[i]].contents]))

---------------------------------------------------------------------------
(* main (main.rs): one CLI invocation, statement by statement *)

\* what the server may answer: a catalog, another catalog, an error page
ServerBodies ==
    { <<Open, Member(s_ab, s_y), Member(s_ba, s_z), Close>>,
      <<Open, Member(s_A, s_x), Member(s_A, s_y), Close>>,
      <<Junk>> }

Opts == [update : BOOLEAN, list : BOOLEAN, templates : SeqsUpTo(Asked, MaxNames)]

\* main without the forced refresh: a missing cache is read as it is
main_branch_no_forced(update, exists) == IF update THEN "update" ELSE "cached"

\* main, lines 261-274: which branch is taken
main_branch(update, exists) ==
    IF update THEN "update"
    ELSE IF ~exists THEN "warn_update"
    ELSE "cached"

\* "let _ = app.update();": main goes on whatever update returned
main_after_update_ignored(r) == "output"

\* "app.update()?": where main goes when update returned r
main_after_update(r) == IF r = "Ok" THEN "output" ELSE "idle"

\* "self.read_file()?" in get_template_names / get_templates, and the "?" main
\* puts on them: whether the caller goes on with the data
goes_on(r) == r.err = "Ok"

Invoke ==
    /\ pc = "idle"
    /\ \E o \in Opts : opt' = o
    /\ pc' = "main"
    /\ res' = NoRes
    /\ out' = NoOut
    /\ ret' = "-"
    /\ start' = [dir |-> cache_dir, file |-> ignore_file]
    /\ log' = <<>>
    /\ UNCHANGED <<cache_dir, ignore_file, config>>

Main ==
    /\ pc = "main"
    /\ LET b == main_branch(opt.update, cache_exists(cache_dir, ignore_file))
       IN  /\ log' = Append(log, b)
           /\ pc' = IF b = "cached" THEN "output" ELSE "create_dirs"
    /\ UNCHANGED <<cache_dir, ignore_file, config, opt, res, out, ret, start>>

\* update returns r to main
UpdateReturns(r) ==
    /\ pc' = main_after_update(r)
    /\ ret' = IF main_after_update(r) = "idle" THEN r ELSE "-"
    /\ log' = Append(log, IF r = "Ok" THEN "update_ok" ELSE "update_err")

\* GitIgnore::create_cache_dir / Core::create_dirs
CreateDirs ==
    /\ pc = "create_dirs"
    /\ \/ /\ ~cache_exists(cache_dir, ignore_file)
          /\ \/ /\ cache_dir' = TRUE          \* create_dir_all succeeded
                /\ pc' = "send"
                /\ UNCHANGED <<ret, log>>
             \/ /\ UpdateReturns("IoError")   \* create_dir_all failed
                /\ UNCHANGED cache_dir
       \/ /\ cache_exists(cache_dir, ignore_file)
          /\ pc' = "send"
          /\ UNCHANGED <<cache_dir, ret, log>>
    /\ UNCHANGED <<ignore_file, config, opt, res, out, start>>

\* fetch_gitignore: attohttpc::get(&self.server).send()?
Send ==
    /\ pc = "send"
    /\ \/ /\ \E b \in ServerBodies : res' = [open |-> TRUE, body |-> b]
          /\ pc' = "create"
          /\ UNCHANGED <<ret, log>>
       \/ /\ UpdateReturns("FetchError")
          /\ UNCHANGED res
    /\ UNCHANGED <<cache_dir, ignore_file, config, opt, out, start>>

\* fetch_gitignore: File::create(&self.ignore_file)? -- creates the file or
\* truncates it to length 0
FileCreate ==
    /\ pc = "create"
    /\ \/ /\ cache_dir
          /\ ignore_file' = FileOf(<<>>)
          /\ pc' = "bytes"
          /\ UNCHANGED <<ret, log>>
       \/ /\ UpdateReturns("IoError")
          /\ UNCHANGED ignore_file
    /\ UNCHANGED <<cache_dir, config, opt, res, out, start>>

\* fetch_gitignore: res.bytes()? -- the body is read from the connection
ResBytes ==
    /\ pc = "bytes"
    /\ \/ /\ pc' = "write"
          /\ UNCHANGED <<ret, log>>
       \/ UpdateReturns("FetchError")
    /\ UNCHANGED <<cache_dir, ignore_file, config, opt, res, out, start>>

\* fetch_gitignore: file.write_all(..)? then Ok(()), and update's Ok(())
WriteAll ==
    /\ pc = "write"
    /\ \/ /\ ignore_file' = FileOf(res.body)
          /\ UpdateReturns("Ok")
       \/ /\ \E k \in 0..(Len(res.body) - 1) :
                ignore_file' = FileOf(SubSeq(res.body, 1, k))
          /\ UpdateReturns("IoError")
    /\ UNCHANGED <<cache_dir, config, opt, res, out, start>>

\* the caller of read_file got r: on an error it returns it at once
Loaded(r, list, text) ==
    /\ log' = Append(log, IF r.err = "Ok" THEN "read_ok" ELSE "read_err")
    /\ pc' = "idle"
    /\ IF goes_on(r)
       THEN /\ out' = [printed |-> TRUE, list |-> list, text |-> text]
            /\ ret' = "Ok"
       ELSE /\ out' = out
            /\ ret' = r.err

\* main, line 277: println!("{:#?}", app.get_template_names(&opt.templates)?)
Listing ==
    /\ pc = "output"
    /\ opt.list
    /\ LET r == read_file(ignore_file)
       IN  \E order \in Orders(DOMAIN r.map) :
               Loaded(r, GitIgnore_get_template_names(order, opt.templates), <<>>)
    /\ UNCHANGED <<cache_dir, ignore_file, config, opt, res, start>>

\* main, line 279: app.get_templates(&opt.templates)?  (out.text is the String
\* handed to println!, which writes it followed by a newline)
Render ==
    /\ pc = "output"
    /\ ~opt.list
    /\ LET r == read_file(ignore_file)
       IN  \E order \in Orders(DOMAIN r.map \cap Range(opt.templates)) :
               Loaded(r, <<>>, GitIgnore_get_templates(r.map, order))
    /\ UNCHANGED <<cache_dir, ignore_file, config, opt, res, start>>

\* a fresh machine: no cache directory, no ignore.json, nothing running
Init ==
    /\ cache_dir = FALSE
    /\ ignore_file = NoFile
    /\ config = None
    /\ pc = "idle"
    /\ opt = NoOpt
    /\ res = NoRes
    /\ out = NoOut
    /\ ret = "-"
    /\ start = NoStart
    /\ log = <<>>

Next ==
    \/ Invoke
    \/ Main
    \/ CreateDirs
    \/ Send
    \/ FileCreate
    \/ ResBytes
    \/ WriteAll
    \/ Listing
    \/ Render

Spec == Init /\ [][Next]_vars

---------------------------------------------------------------------------
(* Config (crate::config, not among the sources): what Core uses of it *)

\* a set as a Vec, in some order
SeqOf(S) == CHOOSE o \in Orders(S) : TRUE

\* Config::names(): the alias names and the custom template names
config_names(c) == SeqOf(DOMAIN c.aliases) \o SeqOf(DOMAIN c.templates)

\* the content of the user's file at a path (every custom file holds "c")
read_to_string(path) == s_c

Some(al, tp) == [some |-> TRUE, aliases |-> al, templates |-> tp]

\* the alias tables with at most one alias, "ab" or "ba", of at most
\* MaxTargets targets, which may or may not be keys or the alias itself
OneAlias ==
    {EmptyMap} \cup
    {[k \in {a} |-> t] : a \in {s_ab, s_ba}, t \in SeqsUpTo(Names, MaxTargets)}

---------------------------------------------------------------------------
(* Core (ignore.rs): listing *)

\* all_names with `combined` a Vec: the config names followed by the keys
all_names_vec(templates, c) ==
    LET config_names_ == IF c.some THEN config_names(c) ELSE <<>>
    IN  {config_names_ \o o : o \in Orders(DOMAIN templates)}

\* Core::all_names, after read_file succeeded: the HashSet `combined`, given
\* as the orders in which "for entry in templates" may visit it
all_names(templates, c) ==
    LET config_names_ == IF c.some THEN config_names(c) ELSE <<>>
    IN  Orders(Range(config_names_) \cup DOMAIN templates)

\* get_template_names matching by prefix, as GitIgnore does
Core_get_template_names_prefix(order, names) ==
    sort_unstable(GitIgnore_push(order, names))

\* Core::get_template_names, lines 84-94: the loop over the entries in
\* iteration order; every entry is pushed if names is empty, else an entry is
\* pushed once per name it contains
Core_push(order, names) ==
    Concat([i \in DOMAIN order |->
               IF names = <<>> THEN <<order[i]>>
               ELSE Concat([j \in DOMAIN names |->
                               IF str_contains(order[i], names[j])
                               THEN <<order[i]>> ELSE <<>>])])

\* Core::get_template_names, lines 81-98, with the entries visited in the
\* given order
Core_get_template_names(order, names) ==
    sort_unstable(Core_push(order, names))

\* the call returns what read_file returned if that is an error
Returned(r, list, text) ==
    /\ pc' = "returned"
    /\ log' = Append(log, IF r.err = "Ok" THEN "read_ok" ELSE "read_err")
    /\ IF goes_on(r)
       THEN /\ out' = [printed |-> TRUE, list |-> list, text |-> text]
            /\ ret' = "Ok"
       ELSE /\ out' = out
            /\ ret' = r.err

\* one call of Core::get_template_names(&opt.templates); out.list is the Vec
\* it returns
GetTemplateNames ==
    /\ pc = "call"
    /\ opt.list
    /\ LET r == read_file(ignore_file)
       IN  \E order \in all_names(r.map, config) :
               Returned(r, Core_get_template_names(order, opt.templates), <<>>)
    /\ UNCHANGED <<cache_dir, ignore_file, config, opt, res, start>>

\* the stores a listing is asked of: listing reads no targets and no paths, so
\* the aliases have no targets here; any names may be aliases or custom templates
ListConfigs ==
    {None} \cup
    {Some([k \in A |-> <<>>], [k \in T |-> s_p]) : A \in SUBSET Names, T \in SUBSET Names}

\* ignore.json as a call may find it: absent, empty, cut off, or a catalog
Files ==
    {NoFile, FileOf(<<>>), FileOf(<<Open, Member(s_ab, s_y)>>)}
    \cup {FileOf(d) : d \in Documents(MaxEntries)}

InitCall(list, configs) ==
    /\ ignore_file \in Files
    /\ cache_dir = ignore_file.exists
    /\ config \in configs
    /\ pc = "call"
    /\ \E t \in SeqsUpTo(Asked, MaxNames) :
           opt = [update |-> FALSE, list |-> list, templates |-> t]
    /\ res = NoRes
    /\ out = NoOut
    /\ ret = "-"
    /\ start = [dir |-> cache_dir, file |-> ignore_file]
    /\ log = <<>>

InitList == InitCall(TRUE, ListConfigs)

NextList == GetTemplateNames

SpecList == InitList /\ [][NextList]_vars

---------------------------------------------------------------------------
(* Core (ignore.rs): rendering *)

RECURSIVE push_targets_break(_, _, _)
\* the loop over the targets left at the first target that is not a key
push_targets_break(templates, val, result) ==
    IF val = <<>> \/ Head(val) \notin DOMAIN templates THEN result
    ELSE push_targets_break(templates, Tail(val),
                            result \o templates[Head(val)].contents)

RECURSIVE push_targets(_, _, _)
\* "for alias in val": the contents of the targets found in templates are
\* pushed onto result
push_targets(templates, val, result) ==
    IF val = <<>> THEN result
    ELSE push_targets(templates, Tail(val),
             IF Head(val) \in DOMAIN templates
             THEN result \o templates[Head(val)].contents
             ELSE result)

RECURSIVE push_names_key_first(_, _, _, _)
\* the loop over the names with the two branches swapped: a key is rendered
\* as a key even when it is an alias name too
push_names_key_first(templates, aliases, names, result) ==
    IF names = <<>> THEN result
    ELSE push_names_key_first(templates, aliases, Tail(names),
             IF Head(names) \in DOMAIN templates
             THEN result \o templates[Head(names)].contents
             ELSE IF Head(names) \in DOMAIN aliases
             THEN push_targets(templates, aliases[Head(names)], result)
             ELSE result)

RECURSIVE push_names(_, _, _, _)
\* "for name in names", lines 114-124
push_names(templates, aliases, names, result) ==
    IF names = <<>> THEN result
    ELSE push_names(templates, aliases, Tail(names),
             IF Head(names) \in DOMAIN aliases
             THEN push_targets(templates, aliases[Head(names)], result)
             ELSE IF Head(names) \in DOMAIN templates
             THEN result \o templates[Head(names)].contents
             ELSE result)

\* get_templates as GitIgnore renders: the records whose key is asked for,
\* each once, in the order of the keys
Core_get_templates_retain(templates, aliases, names) ==
    LET kept == sort_unstable(SeqOf(DOMAIN templates \cap Range(names)))
    IN  WithHeader(Concat([i \in DOMAIN kept |-> templates[kept[i]].contents]))

\* Core::get_templates, after read_file succeeded: the String handed to println!
Core_get_templates(templates, aliases, names) ==
    WithHeader(push_names(templates, aliases, names, <<>>))

\* lines 106-109: the aliases of the config, none without a config
aliases_of(c) == IF c.some THEN c.aliases ELSE EmptyMap

\* one call of Core::get_templates(&opt.templates); out.text is what it prints
GetTemplates ==
    /\ pc = "call"
    /\ ~opt.list
    /\ LET r == read_file(ignore_file)
       IN  Returned(r, <<>>, Core_get_templates(r.map, aliases_of(config), opt.templates))
    /\ UNCHANGED <<cache_dir, ignore_file, config, opt, res, start>>

\* the stores a rendering is asked of: no config, or at most one alias and
\* possibly the custom template "A"
RenderConfigs ==
    {None} \cup
    {Some(al, tp) : al \in OneAlias, tp \in {EmptyMap, [k \in {s_A} |-> s_p]}}

InitRender == InitCall(FALSE, RenderConfigs)

NextRender == GetTemplates

SpecRender == InitRender /\ [][NextRender]_vars

---------------------------------------------------------------------------
(* Properties of an invocation of main (Spec) *)

\* the invocation has taken its branch at lines 261-274
Branched == log # <<>>

\* the calls of update / of read_file made by the running invocation
UpdateCalls == {i \in DOMAIN log : log[i] \in {"update", "warn_update"}}
ReadCalls == {i \in DOMAIN log : log[i] \in {"read_ok", "read_err"}}
Failures == {i \in DOMAIN log : log[i] \in {"update_err", "read_err"}}

\* C1: in every invocation update is called exactly when the update flag is
\* set or cache_exists() was false at the start, and at most once; it has
\* returned Ok before the store is loaded; with the flag unset and
\* cache_exists() true there is no update and the cache is not written.
C1_UpdatePolicy ==
    LET forced == opt.update \/ ~cache_exists(start.dir, start.file)
    IN  /\ Cardinality(UpdateCalls) <= 1
        /\ Branched => (UpdateCalls # {} <=> forced)
        /\ \A i \in ReadCalls :
               UpdateCalls # {} => \E j \in 1..(i - 1) : log[j] = "update_ok"
        /\ (pc # "idle" \/ Branched) /\ ~forced =>
               /\ ignore_file = start.file
               /\ cache_dir = start.dir
               /\ res = NoRes

\* a refresh forced by a missing cache has finished and the store was then loaded
C1_Witness ==
    /\ pc = "idle"
    /\ ~opt.update
    /\ log = <<"warn_update", "update_ok", "read_ok">>
    /\ out.printed

\* C2: an invocation without the update flag that starts with ignore.json
\* absent, or with the cache directory absent, attempts a refresh before
\* loading and does not fail with a not-found read error.
C2_MissingStoreIsRefreshed ==
    (Branched /\ ~opt.update /\ (~start.file.exists \/ ~start.dir)) =>
        /\ log[1] = "warn_update"
        /\ ret # "NotFound"

\* C3: after update returns, ignore.json holds exactly the fetched bytes if
\* update succeeded and exactly what it held before the call if it failed.
C3_ReplaceIsAtomic ==
    /\ (\E i \in DOMAIN log : log[i] = "update_ok") => ignore_file = FileOf(res.body)
    /\ (\E i \in DOMAIN log : log[i] = "update_err") => ignore_file = start.file

\* C4: a failure of update or of the load ends the invocation with that
\* error: it is the last call made, nothing was retried, and nothing was
\* printed.
C4_FailuresAbort ==
    /\ \A i \in Failures :
           /\ i = Len(log)
           /\ pc = "idle"
           /\ ret \in {"IoError", "FetchError", "NotFound", "Malformed"}
           /\ out = NoOut
    /\ Cardinality(UpdateCalls) <= 1
    /\ Cardinality(ReadCalls) <= 1
    /\ ret \notin {"-", "Ok"} => Failures # {}

\* the load failed on a cut-off ignore.json that holds a whole record, and
\* nothing was printed from it
C4_Witness ==
    /\ pc = "idle"
    /\ ret = "Malformed"
    /\ Len(ignore_file.bytes) >= 2
    /\ ignore_file.bytes[2].t = "member"
    /\ log[Len(log)] = "read_err"

---------------------------------------------------------------------------
(* Properties of the listing (SpecList) *)

\* the call has returned Ok
Done == pc = "returned" /\ ret = "Ok"

\* the Template Store snapshot in ignore.json
Store == read_file(ignore_file).map

\* the names of the Override Store
OverrideNames ==
    IF config.some THEN DOMAIN config.aliases \cup DOMAIN config.templates ELSE {}

Universe == DOMAIN Store \cup OverrideNames

\* pat occurs in s: s is some bytes, then pat, then some bytes
Inside(pat, s) ==
    \E i, j \in 0..Len(s) : i <= j /\ SubSeq(s, i + 1, j) = pat

Occurrences(v, x) == Cardinality({i \in DOMAIN v : v[i] = x})

\* C5: listing with an empty request returns exactly the union of the keys,
\* the alias names and the custom template names, ascending, each name once.
C5_ListAll ==
    (Done /\ opt.list /\ opt.templates = <<>>) =>
        /\ Range(out.list) = Universe
        /\ \A i, j \in DOMAIN out.list : i < j => StrLess(out.list[i], out.list[j])

\* everything was listed, and "ab" is a key, an alias and a custom template
C5_Witness ==
    /\ Done /\ opt.list /\ opt.templates = <<>>
    /\ s_ab \in DOMAIN Store
    /\ config.some /\ s_ab \in DOMAIN config.aliases /\ s_ab \in DOMAIN config.templates
    /\ out.list = <<s_A, s_ab, s_ba>>

---------------------------------------------------------------------------
(* Properties of the rendering (SpecRender) *)

Aliases == IF config.some THEN config.aliases ELSE EmptyMap

\* the contents of the keys of v that the store holds, in the order of v
ContentsOf(v) ==
    LET hits == SelectSeq(v, LAMBDA k : k \in DOMAIN Store)
    IN  Concat([i \in DOMAIN hits |-> Store[hits[i]].contents])

\* the keys the request stands for: an alias stands for its targets
Expanded(names) ==
    Concat([i \in DOMAIN names |->
               IF names[i] \in DOMAIN Aliases THEN Aliases[names[i]] ELSE <<names[i]>>])

\* C7: the requested names contribute in the order given, once per
\* occurrence, an alias the contents of its existing targets in target order
\* and a key its contents, back to back; a non-empty concatenation is
\* printed behind the header, an empty one as the empty string, with Ok.
C7_Render ==
    (pc = "returned" /\ ~opt.list /\ read_file(ignore_file).err = "Ok") =>
        LET body == ContentsOf(Expanded(opt.templates))
        IN  /\ ret = "Ok"
            /\ out.printed
            /\ out.text = IF body = <<>> THEN <<>> ELSE Header \o body

\* an alias of two existing targets and a key were asked for: three records
\* behind one header
C7_Witness ==
    /\ Done /\ ~opt.list
    /\ Len(opt.templates) = 2
    /\ opt.templates[1] \in DOMAIN Aliases
    /\ opt.templates[2] \notin DOMAIN Aliases
    /\ Len(out.text) = Len(Header) + 3

\* C8: a requested name that is an alias name and a key contributes the
\* contents of the alias's targets that are keys and nothing else; the
\* targets are looked up in the store only.
C8_AliasPrecedence ==
    (Done /\ ~opt.list /\ opt.templates # <<>>
          /\ \A i \in DOMAIN opt.templates :
                 opt.templates[i] \in DOMAIN Aliases \cap DOMAIN Store) =>
        LET body == Concat([i \in DOMAIN opt.templates |->
                               ContentsOf(Aliases[opt.templates[i]])])
        IN  out.text = IF body = <<>> THEN <<>> ELSE Header \o body

\* "ab" is a key and an alias of "ba" and of itself: "ba" and then the
\* record "ab" as a target are rendered
C8_Witness ==
    /\ Done /\ ~opt.list
    /\ opt.templates = <<s_ab>>
    /\ s_ab \in DOMAIN Store /\ s_ba \in DOMAIN Store
    /\ s_ab \in DOMAIN Aliases /\ Aliases[s_ab] = <<s_ba, s_ab>>
    /\ out.text = Header \o s_z \o s_y

\* C9: a requested name that is neither an alias name nor a key but a custom
\* template contributes the content of the file at its path.
C9_CustomTemplateRendered ==
    (Done /\ ~opt.list /\ config.some /\ Len(opt.templates) = 1) =>
        LET n == opt.templates[1]
        IN  (n \notin DOMAIN Aliases /\ n \notin DOMAIN Store
                                     /\ n \in DOMAIN config.templates) =>
                out.text = Header \o read_to_string(config.templates[n])

\* C10: a requested name that is neither an alias name nor a key, and an
\* alias target that is not a key, raise no error and leave the output as if
\* they had not been given.
C10_UnknownSkipped ==
    (pc = "returned" /\ ~opt.list /\ read_file(ignore_file).err = "Ok") =>
        LET known == SelectSeq(opt.templates,
                               LAMBDA n : n \in DOMAIN Aliases \cup DOMAIN Store)
            found == [a \in DOMAIN Aliases |->
                         SelectSeq(Aliases[a], LAMBDA k : k \in DOMAIN Store)]
        IN  /\ ret = "Ok"
            /\ out.text = Core_get_templates(Store, found, known)

\* "a" matches nothing although "ab" is a key; the alias asked for has a
\* missing target before an existing one, which is rendered
C10_Witness ==
    /\ Done /\ ~opt.list
    /\ s_ab \in DOMAIN Store
    /\ Len(opt.templates) = 2
    /\ opt.templates[1] = s_a
    /\ opt.templates[2] \in DOMAIN Aliases
    /\ Len(Aliases[opt.templates[2]]) = 2
    /\ Aliases[opt.templates[2]][1] \notin DOMAIN Store
    /\ Aliases[opt.templates[2]][2] \in DOMAIN Store
    /\ Len(out.text) = Len(Header) + 1

=============================================================================
